---- MODULE Spec2Model ----
(***************************************************************************)
(* Model of src/app.py, the bid evaluation score tool (a Streamlit script). *)
(*                                                                         *)
(* Numbers.  Python floats and numpy float64 values are modelled as exact  *)
(* rationals [n |-> numerator, d |-> denominator] with d > 0, kept in      *)
(* lowest terms, so record equality is numeric equality.  NaN, which       *)
(* np.mean returns for an empty list, is the record with d = 0; every      *)
(* comparison with NaN is FALSE and every arithmetic result on NaN is NaN, *)
(* as in IEEE 754.  Float rounding error is not modelled.                  *)
(***************************************************************************)
EXTENDS Integers, Sequences, FiniteSets, TLC

VARIABLES
    current_prices,    \* st.session_state.current_prices
    need_recalculate,  \* st.session_state.need_recalculate
    params,            \* values of the sidebar widgets
    input_method,      \* the radio: "manual" or "file"
    price_input,       \* the text area: a sequence of lines
    uploaded_file,     \* the file uploader: NoFile, Unreadable or a column
    button_shown,      \* the recalculate button was rendered by the last run
    out,               \* what the last script run displayed
    bid1, bid2, base,  \* inputs of the scoring specification
    score1, score2     \* outputs of the scoring specification

vars == <<current_prices, need_recalculate, params, input_method, price_input,
          uploaded_file, button_shown, out, bid1, bid2, base, score1, score2>>

sessionVars == <<current_prices, need_recalculate, params, input_method,
                 price_input, uploaded_file, button_shown, out>>

scoreVars == <<bid1, bid2, base, score1, score2>>

-----------------------------------------------------------------------------
(* Bounds of the model. *)

\* longest price list of the pipeline specification
MaxLen == 4
\* largest price of the pipeline specification
MaxPrice == 3
\* largest trim count of the pipeline specification
MaxTrim == 5
\* longest text area / file column of the session specification
SessMaxLen == 2
\* largest bid price and benchmark numerator of the scoring specification
MaxBid == 6

-----------------------------------------------------------------------------
(* Exact rational arithmetic standing for float arithmetic. *)

NaN == [n |-> 0, d |-> 0]

IsNaN(x) == x.d = 0

AbsInt(i) == IF i < 0 THEN -i ELSE i

RECURSIVE GCD(_, _)
GCD(a, b) == IF b = 0 THEN a ELSE GCD(b, a % b)

\* the rational num/den in lowest terms; x/0 is taken as NaN (it does not
\* arise: every divisor of the program is an average of positive prices,
\* such an average times K >= 0.8, or NaN)
Rat(num, den) ==
    IF den = 0 THEN NaN
    ELSE LET g == GCD(AbsInt(num), AbsInt(den))
             s == IF den < 0 THEN -1 ELSE 1
         IN  [n |-> s * (num \div g), d |-> s * (den \div g)]

R(i) == [n |-> i, d |-> 1]

RSub(x, y) == IF IsNaN(x) \/ IsNaN(y) THEN NaN
              ELSE Rat(x.n * y.d - y.n * x.d, x.d * y.d)

RMul(x, y) == IF IsNaN(x) \/ IsNaN(y) THEN NaN
              ELSE Rat(x.n * y.n, x.d * y.d)

RDiv(x, y) == IF IsNaN(x) \/ IsNaN(y) THEN NaN
              ELSE Rat(x.n * y.d, x.d * y.n)

RAbs(x) == [n |-> AbsInt(x.n), d |-> x.d]

REq(x, y) == ~IsNaN(x) /\ ~IsNaN(y) /\ x = y

RLt(x, y) == ~IsNaN(x) /\ ~IsNaN(y) /\ x.n * y.d < y.n * x.d

RLe(x, y) == ~IsNaN(x) /\ ~IsNaN(y) /\ x.n * y.d <= y.n * x.d

RGt(x, y) == RLt(y, x)

Pow10(k) == IF k = 2 THEN 100 ELSE 10000

\* Python's round(x, ndigits): to the nearest multiple of 10^-ndigits, ties
\* to even; round(nan, ndigits) is nan
PyRound(x, ndigits) ==
    IF IsNaN(x) THEN NaN
    ELSE LET num == x.n * Pow10(ndigits)
             q   == num \div x.d
             r   == num % x.d
             up  == \/ 2 * r > x.d
                    \/ 2 * r = x.d /\ q % 2 = 1
         IN  Rat(IF up THEN q + 1 ELSE q, Pow10(ndigits))

\* Python's max(a, b): b only when b > a, so max(nan, 0) is nan
PyMax(a, b) == IF RGt(b, a) THEN b ELSE a

-----------------------------------------------------------------------------
(* Lists. *)

RECURSIVE Sum(_)
Sum(s) == IF s = <<>> THEN 0 ELSE Head(s) + Sum(Tail(s))

\* np.mean of a list of numbers; nan (with a warning) for the empty list
Mean(s) == IF s = <<>> THEN NaN ELSE Rat(Sum(s), Len(s))

RECURSIVE MaxOf(_)
MaxOf(s) == IF Len(s) = 1 THEN Head(s)
            ELSE LET t == MaxOf(Tail(s))
                 IN  IF Head(s) >= t THEN Head(s) ELSE t

RECURSIVE Insert(_, _)
Insert(x, s) == IF s = <<>> THEN <<x>>
                ELSE IF x <= Head(s) THEN <<x>> \o s
                ELSE <<Head(s)>> \o Insert(x, Tail(s))

\* Python's sorted(): a new ascending list
RECURSIVE Sorted(_)
Sorted(s) == IF s = <<>> THEN <<>> ELSE Insert(Head(s), Sorted(Tail(s)))

\* Python's s[start:stop] for start >= 0: a negative stop counts from the
\* end of the list, and both ends are clipped to the list
PySlice(s, start, stop) ==
    LET len == Len(s)
        lo  == IF start > len THEN len ELSE start
        hi  == IF stop < 0 THEN (IF stop + len < 0 THEN 0 ELSE stop + len)
               ELSE IF stop > len THEN len ELSE stop
    IN  IF lo < hi THEN SubSeq(s, lo + 1, hi) ELSE <<>>

-----------------------------------------------------------------------------
(* The computation: src/app.py lines 29-63. *)

\* a variant that removes one occurrence of the maximum, as
\* prices.remove(max(prices)) would
RECURSIVE without_first(_, _)
without_first(s, x) == IF s = <<>> THEN <<>>
                       ELSE IF Head(s) = x THEN Tail(s)
                       ELSE <<Head(s)>> \o without_first(Tail(s), x)

prices_without_one_highest(prices) == without_first(prices, MaxOf(prices))

\* [p for p in prices if p != max(prices)]
prices_without_highest(prices) ==
    SelectSeq(prices, LAMBDA p : p # MaxOf(prices))

\* sorted_prices[k:n-m]
remaining_after_trim(prices, m, k) ==
    PySlice(Sorted(prices), k, Len(prices) - m)

\* a variant that trims pools of exactly three bids too (n < 3)
calculate_first_average_lt3(prices, m, k) ==
    LET n == Len(prices)
        remaining_prices == remaining_after_trim(prices, m, k)
    IN  IF n < 3
        THEN [avg |-> Mean(prices), basis |-> prices, note |-> "all"]
        ELSE IF Len(remaining_prices) = 0
        THEN [avg |-> Mean(prices), basis |-> prices, note |-> "zero_survivors"]
        ELSE IF Len(remaining_prices) = 1
        THEN [avg   |-> Mean(prices_without_highest(prices)),
              basis |-> prices_without_highest(prices),
              note  |-> "single_survivor"]
        ELSE [avg |-> Mean(remaining_prices), basis |-> remaining_prices,
              note |-> "trimmed"]

\* a variant without the zero-survivor fallback
calculate_first_average_no_fallback(prices, m, k) ==
    LET n == Len(prices)
        remaining_prices == remaining_after_trim(prices, m, k)
    IN  IF n <= 3
        THEN [avg |-> Mean(prices), basis |-> prices, note |-> "all"]
        ELSE IF Len(remaining_prices) = 1
        THEN [avg   |-> Mean(prices_without_highest(prices)),
              basis |-> prices_without_highest(prices),
              note  |-> "single_survivor"]
        ELSE [avg |-> Mean(remaining_prices), basis |-> remaining_prices,
              note |-> "trimmed"]

calculate_first_average(prices, m, k) ==
    LET n == Len(prices)
        remaining_prices == remaining_after_trim(prices, m, k)
    IN  IF n <= 3
        THEN [avg |-> Mean(prices), basis |-> prices, note |-> "all"]
        ELSE IF Len(remaining_prices) = 0
        THEN [avg |-> Mean(prices), basis |-> prices, note |-> "zero_survivors"]
        ELSE IF Len(remaining_prices) = 1
        THEN [avg   |-> Mean(prices_without_highest(prices)),
              basis |-> prices_without_highest(prices),
              note  |-> "single_survivor"]
        ELSE [avg |-> Mean(remaining_prices), basis |-> remaining_prices,
              note |-> "trimmed"]

\* a variant with the sign of the deviation flipped: (p - first_avg) / first_avg
in_band_flipped(p, first_avg, s1, s2) ==
    LET dev == RDiv(RSub(R(p), first_avg), first_avg)
    IN  RLe(Rat(s1, 100), dev) /\ RLe(dev, Rat(s2, 100))

\* s1 <= (first_avg - p) / first_avg <= s2, with s1 and s2 in hundredths
in_band(p, first_avg, s1, s2) ==
    LET dev == RDiv(RSub(first_avg, R(p)), first_avg)
    IN  RLe(Rat(s1, 100), dev) /\ RLe(dev, Rat(s2, 100))

calculate_second_average(prices, first_avg, s1, s2) ==
    LET valid_prices == SelectSeq(prices, LAMBDA p : in_band(p, first_avg, s1, s2))
    IN  IF valid_prices = <<>>
        THEN [avg |-> first_avg, basis |-> prices, note |-> "fallback"]
        ELSE [avg |-> Mean(valid_prices), basis |-> valid_prices, note |-> "band"]

\* a variant without abs(): 100 - (bid_price - base_price) / base_price * 100 * e
penalised_signed(bid_price, base_price, e) ==
    RSub(R(100),
         RMul(RMul(RDiv(RSub(bid_price, base_price), base_price), R(100)), e))

\* 100 - abs(bid_price - base_price) / base_price * 100 * e
penalised(bid_price, base_price, e) ==
    RSub(R(100),
         RMul(RMul(RDiv(RAbs(RSub(bid_price, base_price)), base_price), R(100)), e))

\* bid_price and base_price are rationals, e_higher and e_lower are tenths
calculate_price_score(bid_price, base_price, e_higher, e_lower) ==
    IF REq(bid_price, base_price) THEN R(100)
    ELSE LET score == IF RGt(bid_price, base_price)
                      THEN penalised(bid_price, base_price, Rat(e_higher, 10))
                      ELSE penalised(bid_price, base_price, Rat(e_lower, 10))
         IN  PyMax(PyRound(score, 2), R(0))

\* a variant that scores the bids the first pass kept
scored_remaining_prices(prices, remaining_prices, final_prices) == remaining_prices

\* the list the results loop enumerates (line 209)
scored_prices(prices, remaining_prices, final_prices) == prices

\* one row of the results table (lines 209-226)
result_row(i, price, first_avg, second_avg, base_price, p) ==
    [seq             |-> i,
     price           |-> price,
     first_avg       |-> first_avg,
     first_deviation |-> PyRound(RDiv(RSub(first_avg, R(price)), first_avg), 4),
     second_avg      |-> second_avg,
     base_price      |-> base_price,
     final_deviation |-> PyRound(RDiv(RSub(second_avg, R(price)), second_avg), 4),
     score           |-> calculate_price_score(R(price), base_price,
                                               p.e_higher, p.e_lower)]

\* the trim counts the first pass is called with (lines 187-194)
trim_high(p) == IF p.use_elimination THEN p.m_value ELSE 0

trim_low(p) == IF p.use_elimination THEN p.k_value_elim ELSE 0

\* lines 185-226 over a list of numbers: everything the run displays
Pipeline(prices, p) ==
    LET first   == calculate_first_average(prices, trim_high(p), trim_low(p))
        second  == calculate_second_average(first.basis, first.avg,
                                            p.s1_value, p.s2_value)
        base_price == RMul(second.avg, Rat(p.k_value, 100))
        scored  == scored_prices(prices, first.basis, second.basis)
    IN  [prices           |-> prices,
         params           |-> p,
         first_avg        |-> first.avg,
         remaining_prices |-> first.basis,
         first_avg_note   |-> first.note,
         second_avg       |-> second.avg,
         final_prices     |-> second.basis,
         second_avg_note  |-> second.note,
         base_price       |-> base_price,
         results          |-> [i \in 1..Len(scored) |->
                                 result_row(i, scored[i], first.avg, second.avg,
                                            base_price, p)]]

-----------------------------------------------------------------------------
(* The script: src/app.py lines 14-27 and 65-226.  One run of the script   *)
(* is one evaluation of RunScript.                                         *)

\* a line of the text area or a cell of the selected column
Num(v) == [kind |-> "num", val |-> v]
Text == [kind |-> "text", val |-> 0]
Null == [kind |-> "null", val |-> 0]
Blank == [kind |-> "blank", val |-> 0]

NoFile == [kind |-> "none", column |-> <<>>]
Unreadable == [kind |-> "unreadable", column |-> <<>>]
Column(cells) == [kind |-> "column", column |-> cells]

Values(cells) == [i \in 1..Len(cells) |-> cells[i].val]

\* the widgets' initial values (lines 73-118)
DefaultParams ==
    [k_value |-> 90, e_higher |-> 10, e_lower |-> 5, use_elimination |-> FALSE,
     m_value |-> 0, k_value_elim |-> 0, s1_value |-> -20, s2_value |-> 10]

\* store_prices (lines 20-23)
store_prices(st, prices) ==
    [st EXCEPT !.current_prices = prices, !.need_recalculate = FALSE]

\* trigger_recalculate (lines 25-27)
trigger_recalculate(st) == [st EXCEPT !.need_recalculate = TRUE]

\* what the input section leaves behind: the session state, the local list
\* `prices` (numbers, or the raw cells when `raw`), the errors shown
Input(st, prices, raw, errors, invalid) ==
    [st |-> st, prices |-> prices, raw |-> raw, errors |-> errors,
     invalid |-> invalid]

\* lines 137-153: the text area
manual_input(st, lines) ==
    LET entries == SelectSeq(lines, LAMBDA l : l.kind # "blank")
        numbers == Values(entries)
    IN  IF lines = <<>>
        THEN Input(st, <<>>, FALSE, {}, FALSE)
        ELSE IF \E i \in 1..Len(entries) : entries[i].kind = "text"
        THEN Input(st, <<>>, FALSE, {"invalid_number"}, TRUE)
        ELSE IF \E i \in 1..Len(numbers) : numbers[i] <= 0
        THEN Input(st, <<>>, FALSE, {"must_be_positive"}, TRUE)
        ELSE Input(store_prices(st, numbers), numbers, FALSE, {}, FALSE)

\* any(p <= 0 for p in prices) over the raw cells (line 171): "raises" when
\* a text cell is compared with 0 before a non-positive number is met
any_non_positive(cells) ==
    LET stops == {i \in 1..Len(cells) :
                     cells[i].kind = "text" \/ cells[i].val <= 0}
        first == CHOOSE i \in stops : \A j \in stops : i <= j
    IN  IF stops = {} THEN "false"
        ELSE IF cells[first].kind = "text" THEN "raises" ELSE "true"

\* the handler of an exception raised while the column is checked
\* (lines 178-179): the error is shown and `prices` keeps the raw column
column_check_raised(st, cells) ==
    Input(st, cells, TRUE, {"read_error"}, TRUE)

\* lines 155-179: the file uploader
file_input(st, file) ==
    LET cells == file.column
    IN  IF file.kind = "none"
        THEN Input(st, <<>>, FALSE, {}, FALSE)
        ELSE IF file.kind = "unreadable"
        THEN Input(st, <<>>, FALSE, {"read_error"}, FALSE)
        ELSE IF \E i \in 1..Len(cells) : cells[i].kind = "null"
        THEN Input(st, <<>>, FALSE, {"has_null"}, TRUE)
        ELSE IF any_non_positive(cells) = "true"
        THEN Input(st, <<>>, FALSE, {"must_be_positive"}, TRUE)
        ELSE IF any_non_positive(cells) = "raises"
        THEN column_check_raised(st, cells)
        ELSE Input(store_prices(st, Values(cells)), Values(cells), FALSE, {}, FALSE)

NoResult == [prices |-> <<>>]

\* lines 181-183: the list the pipeline is given
use_stored_prices(inp) ==
    IF inp.prices = <<>> /\ inp.st.current_prices # <<>>
    THEN [inp EXCEPT !.prices = inp.st.current_prices]
    ELSE inp

\* lines 185-226; np.mean and the subtraction of line 211 raise on text
\* cells, which ends the run before anything is displayed
evaluate(inp, p) ==
    [errors  |-> inp.errors,
     invalid |-> inp.invalid,
     calc    |-> IF inp.prices = <<>> THEN "none"
                 ELSE IF inp.raw THEN "crashed" ELSE "done",
     res     |-> IF inp.prices = <<>> \/ inp.raw THEN NoResult
                 ELSE Pipeline(inp.prices, p)]

\* lines 128-226: the main section
main_section(st, p, method, lines, file) ==
    LET inp == use_stored_prices(IF method = "manual" THEN manual_input(st, lines)
                                 ELSE file_input(st, file))
    IN  [st |-> inp.st, out |-> evaluate(inp, p)]

\* lines 120-126 and then the main section: the recalculate button is
\* rendered when the flag is set and prices are stored; a click on it clears
\* the flag and st.rerun() starts the script again
RunScript(st, p, method, lines, file, clicked) ==
    LET shown == st.need_recalculate /\ Len(st.current_prices) > 0
        st1   == IF shown /\ clicked THEN [st EXCEPT !.need_recalculate = FALSE]
                 ELSE st
        run   == main_section(st1, p, method, lines, file)
    IN  [st |-> run.st, out |-> run.out,
         button_shown |-> shown /\ ~clicked]

-----------------------------------------------------------------------------
(* State machines. *)

Seqs(S, n) == UNION {[1..k -> S] : k \in 0..n}

NoOutput == [errors |-> {}, invalid |-> FALSE, calc |-> "none", res |-> NoResult]

NotScored == [n |-> 0, d |-> -1]

Session == [current_prices |-> current_prices, need_recalculate |-> need_recalculate]

\* the effect of one run of the script on the session and the display
Apply(run) ==
    \E r \in {run} :
        /\ current_prices' = r.st.current_prices
        /\ need_recalculate' = r.st.need_recalculate
        /\ button_shown' = r.button_shown
        /\ out' = r.out

(* The session: the page as its user drives it. *)

SessPrices == {1, 2}

ManualLines == {Num(v) : v \in SessPrices \cup {0}} \cup {Text, Blank}

ColumnCells == {Num(v) : v \in SessPrices \cup {0}} \cup {Text, Null}

Files == {NoFile, Unreadable} \cup {Column(c) : c \in Seqs(ColumnCells, SessMaxLen)}

\* sidebar settings the user moves between: the defaults, another K, other
\* penalty coefficients, trimming switched on, another deviation band
ParamChoices ==
    {DefaultParams,
     [DefaultParams EXCEPT !.k_value = 100],
     [DefaultParams EXCEPT !.e_higher = 20, !.e_lower = 0],
     [DefaultParams EXCEPT !.use_elimination = TRUE, !.m_value = 1],
     [DefaultParams EXCEPT !.s1_value = 0, !.s2_value = 0]}

\* the state after the first run of the script (lines 14-18, nothing entered)
Init ==
    /\ current_prices = <<>>
    /\ need_recalculate = FALSE
    /\ params = DefaultParams
    /\ input_method = "manual"
    /\ price_input = <<>>
    /\ uploaded_file = NoFile
    /\ button_shown = FALSE
    /\ out = NoOutput
    /\ bid1 = 1 /\ bid2 = 1 /\ base = R(1)
    /\ score1 = NotScored /\ score2 = NotScored

\* the user submits the text area (lines 138-153)
EnterPrices(lines) ==
    /\ input_method = "manual"
    /\ lines # price_input
    /\ price_input' = lines
    /\ Apply(RunScript(Session, params, input_method, lines, uploaded_file, FALSE))
    /\ UNCHANGED <<params, input_method, uploaded_file, scoreVars>>

\* the user uploads, replaces or removes the file (lines 156-179)
UploadFile(file) ==
    /\ input_method = "file"
    /\ file # uploaded_file
    /\ uploaded_file' = file
    /\ Apply(RunScript(Session, params, input_method, price_input, file, FALSE))
    /\ UNCHANGED <<params, input_method, price_input, scoreVars>>

\* the user switches the radio (lines 130-133); the widget of the other
\* method is no longer rendered and starts empty when it is rendered again
SelectInputMethod ==
    /\ input_method' = IF input_method = "manual" THEN "file" ELSE "manual"
    /\ price_input' = <<>>
    /\ uploaded_file' = NoFile
    /\ Apply(RunScript(Session, params, input_method', <<>>, NoFile, FALSE))
    /\ UNCHANGED <<params, scoreVars>>

\* the user changes a sidebar widget (lines 73-118): its on_change callback
\* runs, then the script
ChangeParameter(p) ==
    /\ p # params
    /\ params' = p
    /\ Apply(RunScript(trigger_recalculate(Session), p, input_method,
                       price_input, uploaded_file, FALSE))
    /\ UNCHANGED <<input_method, price_input, uploaded_file, scoreVars>>

\* the user clicks the recalculate button the last run rendered (line 123)
ClickRecalculate ==
    /\ button_shown
    /\ Apply(RunScript(Session, params, input_method, price_input,
                       uploaded_file, TRUE))
    /\ UNCHANGED <<params, input_method, price_input, uploaded_file, scoreVars>>

Next ==
    \/ \E lines \in Seqs(ManualLines, SessMaxLen) : EnterPrices(lines)
    \/ \E file \in Files : UploadFile(file)
    \/ SelectInputMethod
    \/ \E p \in ParamChoices : ChangeParameter(p)
    \/ ClickRecalculate

Spec == Init /\ [][Next]_vars

(* The pipeline: one run of the script over a stored, validated price list *)
(* and a parameter set, nothing being entered (lines 181-226).             *)

PriceLists == Seqs(1..MaxPrice, MaxLen) \ {<<>>}

TrimSettings ==
    {[DefaultParams EXCEPT !.use_elimination = TRUE, !.m_value = m,
                           !.k_value_elim = k] : m, k \in 0..MaxTrim}
    \cup {DefaultParams}

\* K, E_higher, E_lower, s1, s2: the defaults, the ends of the widgets'
\* ranges with a band below A1, and a band whose bounds are crossed
OtherSettings ==
    {<<90, 10, 5, -20, 10>>, <<80, 20, 0, 5, 60>>, <<100, 0, 20, 10, -20>>}

PipelineParams ==
    {[t EXCEPT !.k_value = o[1], !.e_higher = o[2], !.e_lower = o[3],
               !.s1_value = o[4], !.s2_value = o[5]] :
        t \in TrimSettings, o \in OtherSettings}

InitPipeline ==
    /\ current_prices \in PriceLists
    /\ need_recalculate = FALSE
    /\ params \in PipelineParams
    /\ input_method = "manual"
    /\ price_input = <<>>
    /\ uploaded_file = NoFile
    /\ button_shown = FALSE
    /\ out = NoOutput
    /\ bid1 = 1 /\ bid2 = 1 /\ base = R(1)
    /\ score1 = NotScored /\ score2 = NotScored

Recalculate ==
    /\ out = NoOutput
    /\ Apply(RunScript(Session, params, input_method, price_input,
                       uploaded_file, FALSE))
    /\ UNCHANGED <<params, input_method, price_input, uploaded_file, scoreVars>>

SpecPipeline == InitPipeline /\ [][Recalculate]_vars

(* Scoring: calculate_price_score applied to two bids against one          *)
(* benchmark price (lines 54-63).                                          *)

Benchmarks == {Rat(num, den) : num \in 1..MaxBid, den \in {1, 2}}

ScoreParams ==
    {[DefaultParams EXCEPT !.e_higher = eh, !.e_lower = el] :
        eh, el \in {0, 5, 10, 20}}

InitScore ==
    /\ current_prices = <<>>
    /\ need_recalculate = FALSE
    /\ params \in ScoreParams
    /\ input_method = "manual"
    /\ price_input = <<>>
    /\ uploaded_file = NoFile
    /\ button_shown = FALSE
    /\ out = NoOutput
    /\ bid1 \in 1..MaxBid /\ bid2 \in 1..MaxBid /\ base \in Benchmarks
    /\ score1 = NotScored /\ score2 = NotScored

Score ==
    /\ score1 = NotScored
    /\ score1' = calculate_price_score(R(bid1), base, params.e_higher, params.e_lower)
    /\ score2' = calculate_price_score(R(bid2), base, params.e_higher, params.e_lower)
    /\ UNCHANGED <<sessionVars, bid1, bid2, base>>

SpecScore == InitScore /\ [][Score]_vars

-----------------------------------------------------------------------------
(* Properties. *)

Done == out.calc = "done"

NumBids == Len(current_prices)

\* the exact mean of a non-empty list of integers, stated by cross-multiplying
IsMeanOf(x, s) == ~IsNaN(x) /\ x.n * Len(s) = Sum(s) * x.d

Highest(s) == CHOOSE x \in {s[i] : i \in 1..Len(s)} : \A i \in 1..Len(s) : s[i] <= x

\* the entries of s below its highest entry, in the order of s
BelowHighest(s) == SelectSeq(s, LAMBDA x : x < Highest(s))

Trimming == params.use_elimination

\* C1: every score of a run over a validated price list lies in [0, 100].
C1_ScoresInRange ==
    Done => \A i \in 1..Len(out.res.results) :
                /\ RLe(R(0), out.res.results[i].score)
                /\ RLe(out.res.results[i].score, R(100))

\* C2: a run whose price input holds a non-numeric, null or non-positive
\* entry shows an error and computes no averages and no scores, whatever
\* list an earlier run stored.
C2_NoPartialSuccess ==
    out.invalid => out.errors # {} /\ out.calc # "done"

\* C3: the basis returned by the first pass is never empty, so A1 is a
\* defined mean.
C3_BasisNonEmpty ==
    Done => out.res.remaining_prices # <<>> /\ ~IsNaN(out.res.first_avg)

\* the case of C4: more than three bids and trim counts that leave one
SingleSurvivorCase ==
    /\ NumBids > 3
    /\ Trimming
    /\ params.m_value + params.k_value_elim = NumBids - 1

Survivor == Sorted(current_prices)[params.k_value_elim + 1]

OverTrimmed == Trimming /\ params.m_value + params.k_value_elim > NumBids

WrappedSurvivors ==
    LET hi == IF 2 * NumBids - params.m_value > 0
              THEN 2 * NumBids - params.m_value ELSE 0
        lo == IF params.k_value_elim < NumBids THEN params.k_value_elim ELSE NumBids
    IN  IF hi > lo THEN hi - lo ELSE 0

Scored == score1 # NotScored

Distance(bid) == RAbs(RSub(R(bid), base))

SameSide == \/ RLe(base, R(bid1)) /\ RLe(base, R(bid2))
            \/ RLe(R(bid1), base) /\ RLe(R(bid2), base)

\* C6 as claimed: a bid at most as far from D as another scores at least as
\* much, on whichever sides of D the two bids lie.
C6_Original ==
    Scored /\ RLe(Distance(bid1), Distance(bid2)) => RLe(score2, score1)

\* C6 as amended: a bid at most as far from D as another scores at least as
\* much when both lie on the same side of D or E_higher = E_lower.
C6_MonotoneSameSide ==
    /\ Scored
    /\ RLe(Distance(bid1), Distance(bid2))
    /\ SameSide \/ params.e_higher = params.e_lower
    => RLe(score2, score1)

\* two bids above D, the nearer one scoring strictly more
C6_Witness ==
    /\ Scored
    /\ RLt(base, R(bid1)) /\ RLt(R(bid1), R(bid2))
    /\ RLt(score2, score1)

\* the prices of s within the band around A1, the band test cross-multiplied
\* (A1 = a/b with a > 0): s1 * a <= 100 * (a - p * b) <= s2 * a
WithinBand(s, a1) ==
    SelectSeq(s, LAMBDA x :
        /\ ~IsNaN(a1)
        /\ params.s1_value * a1.n <= 100 * (a1.n - x * a1.d)
        /\ 100 * (a1.n - x * a1.d) <= params.s2_value * a1.n)

\* C7: with no price of the first-pass basis in the band, A2 is A1 and the
\* basis is unchanged; otherwise A2 is the mean of exactly the prices in it.
C7_SecondAverage ==
    Done =>
        LET kept == WithinBand(out.res.remaining_prices, out.res.first_avg)
        IN  IF kept = <<>>
            THEN /\ out.res.second_avg = out.res.first_avg
                 /\ out.res.final_prices = out.res.remaining_prices
            ELSE /\ out.res.final_prices = kept
                 /\ IsMeanOf(out.res.second_avg, kept)

\* a run whose band kept some prices of the basis and dropped others
C7_Witness ==
    /\ Done
    /\ out.res.second_avg_note = "band"
    /\ Len(out.res.final_prices) < Len(out.res.remaining_prices)
    /\ out.res.second_avg # out.res.first_avg

\* C8: with at most three bids A1 is the plain mean of all of them and the
\* basis is the whole list, whatever the trim counts.
C8_SmallPoolPlainMean ==
    Done /\ NumBids <= 3 =>
        /\ IsMeanOf(out.res.first_avg, current_prices)
        /\ out.res.remaining_prices = current_prices

\* three bids of which trim counts of one and one would leave a single one
C8_Witness ==
    /\ Done /\ NumBids = 3 /\ Trimming
    /\ params.m_value = 1 /\ params.k_value_elim = 1
    /\ Sorted(current_prices)[1] < Sorted(current_prices)[3]

\* C9: a run leaves the price list as it was and produces one row per bid,
\* row i carrying index i and the i-th price of the list.
C9_RowPerBid ==
    [][out'.calc = "done" =>
         /\ current_prices' = current_prices
         /\ Len(out'.res.results) = Len(current_prices)
         /\ \A i \in 1..Len(current_prices) :
               /\ out'.res.results[i].seq = i
               /\ out'.res.results[i].price = current_prices[i]]_vars

\* a run whose averages were taken over fewer bids than were scored, the
\* list not being in ascending order
C9_Witness ==
    /\ Done
    /\ out.res.first_avg_note = "trimmed"
    /\ Len(out.res.final_prices) < NumBids
    /\ current_prices # Sorted(current_prices)
    /\ Len(out.res.results) = NumBids

\* C10: with a price list stored, a run triggered by a parameter change
\* recomputes the averages and scores over that list with the new parameters.
C10_RecomputeOnParameterChange ==
    [][params' # params /\ current_prices # <<>> =>
         /\ out'.calc = "done"
         /\ out'.res.prices = current_prices
         /\ out'.res.params = params'
         /\ current_prices' = current_prices]_vars

====
